---- MODULE Spec2Model ----
(***************************************************************************)
(* Model of go-osutils (src/osutils.go): Execute and ExecutePiped, the     *)
(* stage processes they start, the os/exec stream copiers that connect a   *)
(* stage to an io.Pipe, and the wait handle returned by the launch.        *)
(*                                                                         *)
(* Stage indices are 0-based as in the source.  A stage process is one of  *)
(* three programs: "inc" and "dbl" map every chunk they read and exit 0 at *)
(* end of input, "head" copies its first chunk and exits 0 without reading *)
(* the rest.  Any running process may also exit with status 1 at any time. *)
(*                                                                         *)
(* os/exec semantics that the model relies on:                             *)
(*  - a stream that is not an *os.File is served by a copier goroutine     *)
(*    and an OS pipe of bounded capacity (OSBuf chunks);                   *)
(*  - io.Pipe is unbuffered: a Write returns only when a Read took the     *)
(*    data, a Read returns EOF only once the write end is closed;          *)
(*  - Cmd.Wait returns once the process has exited AND every copier of the *)
(*    command has finished; a copier that gets EPIPE on the process's      *)
(*    stdin stops copying and that error is not reported.                  *)
(***************************************************************************)
EXTENDS Integers, Sequences, FiniteSets, TLC

\* ------------------------------------------------------------------ bounds
MaxStages == 3
\* number of times the caller invokes a wait handle
MaxWaitCalls == 2
MaxInput  == 2
OSBuf     == 1

\* chunks are numbers modulo Modulus
Modulus == 3

\* ------------------------------------------------------------ Go values
NilSlice        == [isnil |-> TRUE,  elems |-> <<>>]
Slice(s)        == [isnil |-> FALSE, elems |-> s]

NoErr                  == [e |-> "nil", stage |-> -1]
\* the wait handle has not returned
Pending                == [e |-> "pending", stage |-> -1]
ErrNotAbsolutePath     == [e |-> "ErrNotAbsolutePath", stage |-> -1]
ErrNil                 == [e |-> "ErrNil", stage |-> -1]
ErrEmpty               == [e |-> "ErrEmpty", stage |-> -1]
ErrNotMultipleCommands == [e |-> "ErrNotMultipleCommands", stage |-> -1]
StartError(k)          == [e |-> "StartError", stage |-> k]
ExitError(k)           == [e |-> "ExitError", stage |-> k]
\* "exec: Wait was already called"
ErrWaitAlreadyCalled(k) == [e |-> "WaitAlreadyCalled", stage |-> k]

ValidationErrors ==
  {ErrNil, ErrEmpty, ErrNotMultipleCommands, ErrNotAbsolutePath}

\* stream attachments of a process descriptor
NoStream   == [k |-> "nil",    i |-> -1]
ExtStdin   == [k |-> "Stdin",  i |-> -1]
ExtStdout  == [k |-> "Stdout", i |-> -1]
ExtStderr  == [k |-> "Stderr", i |-> -1]
ReaderOf(j) == [k |-> "r", i |-> j]
WriterOf(j) == [k |-> "w", i |-> j]

\* paths are sequences of characters
PathEmpty == <<>>
PathAbs   == <<"/", "t">>
PathRel   == <<"t">>

\* ----------------------------------------------------- the specs launched
\* Cmd / PipeCmd values the caller may pass (Args, AbsoluteDir, Env)
CmdSpecs ==
  { [Args |-> NilSlice,                AbsoluteDir |-> PathEmpty, Env |-> NilSlice],
    [Args |-> Slice(<<>>),             AbsoluteDir |-> PathEmpty, Env |-> NilSlice],
    [Args |-> Slice(<<"inc">>),        AbsoluteDir |-> PathRel,   Env |-> NilSlice],
    [Args |-> Slice(<<"inc">>),        AbsoluteDir |-> PathAbs,   Env |-> Slice(<<"FOO=foo">>)],
    [Args |-> Slice(<<"dbl">>),        AbsoluteDir |-> PathEmpty, Env |-> NilSlice],
    [Args |-> Slice(<<"head", "-1">>), AbsoluteDir |-> PathAbs,   Env |-> NilSlice] }

SeqsUpTo(S, n) == UNION { [1..m -> S] : m \in 0..n }

\* PipeCmdList.PipeCmds: nil, or a slice of 0..MaxStages stages
PipeCmdLists == {NilSlice} \cup { Slice(s) : s \in SeqsUpTo(CmdSpecs, MaxStages) }

\* the bytes of the external Stdin: 1, 2, 0, 1, ... (consecutive chunks differ)
InputOfLen(n) == [k \in 1..n |-> k % Modulus]
Inputs == { InputOfLen(n) : n \in 0..MaxInput }

VARIABLES
  call,        \* "Execute" or "ExecutePiped"
  cmds,        \* the argument: PipeCmds (for Execute: the one Cmd, as a slice)
  input,       \* the bytes the external Stdin held at the call
  stdin,       \* the bytes still unread in the external Stdin
  stdout,      \* the bytes delivered to the external Stdout
  pc,          \* position of the caller in launch / wait
  si,          \* index of the start loop
  wi,          \* index of the wait loop
  launchErr,   \* error returned by Execute / ExecutePiped
  waitHandle,  \* TRUE when the launch returned a wait handle
  waitResult,  \* value returned by the wait handle (Pending before)
  waited,      \* stages whose Wait has returned, in order, with the result
  execCmds,    \* the process descriptors (exec.Cmd), 0-based
  npipes,      \* number of io.Pipe() calls made
  rclosed,     \* readers[j] has been closed
  wclosed,     \* writers[j] has been closed
  proc,        \* per stage: "unstarted", "running", "exit0", "exit1"
  inbuf,       \* per stage: OS pipe feeding the process's stdin
  inEOF,       \* per stage: write end of that OS pipe closed
  inCop,       \* per stage: stdin copier "none", "run", "done"
  outbuf,      \* per stage: OS pipe carrying the process's stdout
  fs,          \* the filesystem: kind of the entry at every path
  fsop,        \* the last filesystem operation called, with what it returned
  launches,    \* two launches side by side: the locals of each executePiped
  heap,        \* the pipes and processes made so far, and who closed / waited
  closeLog,    \* every Close call of the wait handle so far, in order
  waitCalls    \* number of times the wait handle has been invoked

vars == <<call, cmds, input, stdin, stdout, pc, si, wi, launchErr, waitHandle,
          waitResult, waited, execCmds, npipes, rclosed, wclosed, proc, inbuf,
          inEOF, inCop, outbuf, fs, fsop, launches, heap, closeLog, waitCalls>>

logVars    == <<closeLog, waitCalls>>
callerVars == <<pc, si, wi, launchErr, waitHandle, waitResult, waited,
                execCmds, npipes, rclosed, wclosed, logVars>>
fsVars     == <<fs, fsop>>
\* what no step of a launch or of a wait changes: the arguments of the call,
\* the filesystem, and the launches made beside it
twoVars    == <<launches, heap>>
argVars    == <<call, cmds, input, fsVars, twoVars>>

\* ------------------------------------------------------------ pure helpers
\* filepath.IsAbs on a Unix build: the path begins with the separator
isAbsolutePath(path) == Len(path) > 0 /\ path[1] = "/"

numCmds == Len(cmds.elems)
Stages  == 0 .. numCmds - 1
PipeCmd(i) == cmds.elems[i + 1]

\* variant: the length check on Args is missing
ValidateCmd_NoEmptyCheck(c) ==
  IF c.Args.isnil THEN ErrNil
  ELSE IF c.AbsoluteDir # PathEmpty /\ ~isAbsolutePath(c.AbsoluteDir)
       THEN ErrNotAbsolutePath
  ELSE NoErr

\* variant: the working directory is not checked
ValidateCmd_NoDirCheck(c) ==
  IF c.Args.isnil THEN ErrNil
  ELSE IF Len(c.Args.elems) = 0 THEN ErrEmpty
  ELSE NoErr

\* the checks made on one Cmd / PipeCmd, in the order of the code
ValidateCmd(c) ==
  IF c.Args.isnil THEN ErrNil
  ELSE IF Len(c.Args.elems) = 0 THEN ErrEmpty
  ELSE IF c.AbsoluteDir # PathEmpty /\ ~isAbsolutePath(c.AbsoluteDir)
       THEN ErrNotAbsolutePath
  ELSE NoErr

RECURSIVE ValidateStagesFrom(_, _)
\* the range loop over PipeCmds: the first failing stage decides
ValidateStagesFrom(list, i) ==
  IF i > Len(list) THEN NoErr
  ELSE IF ValidateCmd(list[i]) # NoErr THEN ValidateCmd(list[i])
  ELSE ValidateStagesFrom(list, i + 1)

\* variant: the checks on the number of stages are missing
ValidatePiped_NoCountCheck(l) ==
  IF l.isnil THEN ErrNil
  ELSE ValidateStagesFrom(l.elems, 1)

ValidatePiped(l) ==
  IF l.isnil THEN ErrNil
  ELSE IF Len(l.elems) = 0 THEN ErrEmpty
  ELSE IF Len(l.elems) <= 1 THEN ErrNotMultipleCommands
  ELSE ValidateStagesFrom(l.elems, 1)

Validate == IF call = "Execute" THEN ValidateCmd(cmds.elems[1])
            ELSE ValidatePiped(cmds)

\* variant: the specs are validated only after the pipes are wired
PhaseOrder_ValidateLate == <<"construct", "wire", "validate", "start">>

\* variant: the stages are started before the pipes are wired
PhaseOrder_StartBeforeWire == <<"validate", "construct", "start", "wire">>

\* order of the phases of a launch
PhaseOrder == <<"validate", "construct", "wire", "start">>

\* Execute has no wiring phase: execCmd attaches the streams itself
IsPhaseOf(p) == call = "ExecutePiped" \/ p # "wire"
Phases == SelectSeq(PhaseOrder, IsPhaseOf)

PhaseAfter(p) ==
  LET k == CHOOSE j \in 1..Len(Phases) : Phases[j] = p
  IN  IF k = Len(Phases) THEN "launched" ELSE Phases[k + 1]

\* exec.Command(name, arg...) plus Dir and Env
execPipeCmd(c) ==
  [Path   |-> c.Args.elems[1],
   Args   |-> c.Args.elems,
   Dir    |-> c.AbsoluteDir,
   Env    |-> c.Env,
   Stdin  |-> NoStream,
   Stdout |-> NoStream,
   Stderr |-> NoStream]

\* variant: the environment of the spec is not passed on
execCmd_NoEnv(c) ==
  [execPipeCmd(c) EXCEPT !.Env = NilSlice, !.Stdin = ExtStdin,
                         !.Stdout = ExtStdout, !.Stderr = ExtStderr]

execCmd(c) ==
  [execPipeCmd(c) EXCEPT !.Stdin = ExtStdin, !.Stdout = ExtStdout,
                         !.Stderr = ExtStderr]

\* variant: the external Stdin is not attached to stage 0
WireStdin_Unattached(i, n) == IF i = 0 THEN NoStream ELSE ReaderOf(i - 1)

\* variant: the Stderr of the last stage is not attached
WireStderr_LastUnattached(i, n) == IF i = n - 1 THEN NoStream ELSE ExtStderr

\* the attachments made by the wiring loop for stage i of n
WireStdin(i, n)  == IF i = 0 THEN ExtStdin ELSE ReaderOf(i - 1)
WireStdout(i, n) == IF i = n - 1 THEN ExtStdout ELSE WriterOf(i)
WireStderr(i, n) == ExtStderr

\* what a stage program writes for a chunk it read
Xform(prog, x) ==
  CASE prog = "inc" -> (x + 1) % Modulus
    [] prog = "dbl" -> (x * 2) % Modulus
    [] OTHER        -> x

StopsAfterFirst(prog) == prog = "head"

\* ------------------------------------------------------- the filesystem
ErrFileDoesNotExist == [e |-> "ErrFileDoesNotExist", stage |-> -1]
ErrNotRegularFile   == [e |-> "ErrNotRegularFile", stage |-> -1]
ErrNotDir           == [e |-> "ErrNotDir", stage |-> -1]
\* an error of the operating system, passed on as it is
OsError(code)       == [e |-> code, stage |-> -1]

\* a path is "/" followed by names; a relative path has no leading "/"
Names     == {"a", "b"}
\* the order in which a directory lists its names
NameOrder == <<"a", "b">>
Root      == <<"/">>
\* the paths of the model: the names in the root, and the names in /a
FsNodes   == { <<"/", x>> : x \in Names } \cup { <<"/", "a", y>> : y \in Names }
AbsArgs   == {Root} \cup FsNodes
RelArgs   == { Tail(p) : p \in FsNodes }
PathArgs  == AbsArgs \cup RelArgs
\* permission bits given to Mkdir / MkdirAll: a usable and an unusable mode
Perms     == {"0755", "0000"}

\* "noperm" is a directory that can be neither listed nor searched
FsKinds == {"none", "file", "dir", "noperm"}
Parent(p) == SubSeq(p, 1, Len(p) - 1)
IsPrefix(p, q) == Len(p) <= Len(q) /\ SubSeq(q, 1, Len(p)) = p
FsConsistent(f) ==
  \A p \in FsNodes : (Len(p) = 3 /\ f[p] # "none") => f[Parent(p)] = "dir"
FsStates == { f \in [FsNodes -> FsKinds] : FsConsistent(f) }
EmptyFs  == [p \in FsNodes |-> "none"]

\* the operating system resolves a relative path from the working directory
Resolve(p) == IF isAbsolutePath(p) THEN p ELSE Root \o p
Kind(f, p) == IF p = Root THEN "dir" ELSE IF p \in FsNodes THEN f[p] ELSE "none"
IsDirKind(k) == k \in {"dir", "noperm"}

\* the error of the lookup of p: the first component on the way that is not
\* a directory that can be searched
AncestorErr(f, p) ==
  LET bad == { k \in 1 .. Len(p) - 1 : Kind(f, SubSeq(p, 1, k)) # "dir" }
  IN  IF bad = {} THEN "nil"
      ELSE LET k  == CHOOSE x \in bad : \A y \in bad : x <= y
               kd == Kind(f, SubSeq(p, 1, k))
           IN  IF kd = "none" THEN "ENOENT"
               ELSE IF kd = "file" THEN "ENOTDIR"
               ELSE "EACCES"

\* os.Stat / os.Lstat (the model has no symbolic links)
OsStat(f, p) ==
  LET q == Resolve(p)
  IN  IF AncestorErr(f, q) # "nil" THEN [kind |-> "none", err |-> AncestorErr(f, q)]
      ELSE IF Kind(f, q) = "none" THEN [kind |-> "none", err |-> "ENOENT"]
      ELSE [kind |-> Kind(f, q), err |-> "nil"]

\* os.Open for reading
OsOpen(f, p) ==
  IF OsStat(f, p).err # "nil" THEN OsStat(f, p).err
  ELSE IF OsStat(f, p).kind = "noperm" THEN "EACCES"
  ELSE "nil"

\* os.Create: open-or-truncate for writing
OsCreate(f, p) ==
  LET q == Resolve(p)
  IN  IF AncestorErr(f, q) # "nil" THEN [fs |-> f, err |-> AncestorErr(f, q)]
      ELSE IF IsDirKind(Kind(f, q)) THEN [fs |-> f, err |-> "EISDIR"]
      ELSE [fs |-> [f EXCEPT ![q] = "file"], err |-> "nil"]

\* os.Mkdir
OsMkdir(f, p, perm) ==
  LET q == Resolve(p)
  IN  IF AncestorErr(f, q) # "nil" THEN [fs |-> f, err |-> AncestorErr(f, q)]
      ELSE IF Kind(f, q) # "none" THEN [fs |-> f, err |-> "EEXIST"]
      ELSE [fs |-> [f EXCEPT ![q] = IF perm = "0755" THEN "dir" ELSE "noperm"],
            err |-> "nil"]

RECURSIVE OsMkdirAll(_, _, _)
\* os.MkdirAll: nothing to do for a directory, else the parent first
OsMkdirAll(f, p, perm) ==
  LET q == Resolve(p)
  IN  IF OsStat(f, q).err = "nil"
        THEN [fs |-> f, err |-> IF IsDirKind(OsStat(f, q).kind) THEN "nil" ELSE "ENOTDIR"]
        ELSE LET up == IF Len(q) > 2 THEN OsMkdirAll(f, Parent(q), perm)
                       ELSE [fs |-> f, err |-> "nil"]
             IN  IF up.err # "nil" THEN up ELSE OsMkdir(up.fs, q, perm)

\* os.RemoveAll: the entry and everything below it; an absent path is fine
OsRemoveAll(f, p) ==
  LET q == Resolve(p)
  IN  IF q = Root
        THEN [fs |-> EmptyFs, err |-> "EBUSY"]
      ELSE IF AncestorErr(f, q) \in {"ENOENT", "ENOTDIR"} THEN [fs |-> f, err |-> "nil"]
      ELSE IF AncestorErr(f, q) # "nil" THEN [fs |-> f, err |-> AncestorErr(f, q)]
      ELSE [fs |-> [x \in FsNodes |-> IF IsPrefix(q, x) THEN "none" ELSE f[x]],
            err |-> "nil"]

\* the tree at o moved to n
Moved(f, o, n) ==
  [x \in FsNodes |->
     IF IsPrefix(n, x) THEN Kind(f, o \o SubSeq(x, Len(n) + 1, Len(x)))
     ELSE IF IsPrefix(o, x) THEN "none"
     ELSE f[x]]

\* os.Rename
OsRename(f, old, new) ==
  LET o == Resolve(old)
      n == Resolve(new)
  IN  IF AncestorErr(f, o) # "nil" THEN [fs |-> f, err |-> AncestorErr(f, o)]
      ELSE IF Kind(f, o) = "none" THEN [fs |-> f, err |-> "ENOENT"]
      ELSE IF AncestorErr(f, n) # "nil" THEN [fs |-> f, err |-> AncestorErr(f, n)]
      ELSE IF o = Root THEN [fs |-> f, err |-> "EBUSY"]
      ELSE IF o = n THEN [fs |-> f, err |-> "nil"]
      ELSE IF IsPrefix(o, n) THEN [fs |-> f, err |-> "EINVAL"]
      ELSE IF IsDirKind(Kind(f, n)) THEN [fs |-> f, err |-> "EEXIST"]
      ELSE IF Kind(f, n) = "file" /\ IsDirKind(Kind(f, o))
             THEN [fs |-> f, err |-> "ENOTDIR"]
      ELSE [fs |-> Moved(f, o, n), err |-> "nil"]

\* what an operation leaves: the filesystem, the values returned (a boolean,
\* a list, a path), the error, and the number of calls made to the system
FsResult(f, ok, list, out, err, n) ==
  [fs |-> f, ok |-> ok, list |-> list, out |-> out, err |-> err, oscalls |-> n]

\* lines 369-378
stat(f, p) ==
  LET r == OsStat(f, p)
  IN  IF r.err = "nil" THEN [info |-> r.kind, err |-> NoErr]
      ELSE IF r.err = "ENOENT" THEN [info |-> "none", err |-> NoErr]
      ELSE [info |-> "none", err |-> OsError(r.err)]

\* variant: the kind of the entry is not looked at
isRegularFileExists_NoKindCheck(f, p) ==
  IF ~isAbsolutePath(p) THEN FsResult(f, FALSE, NilSlice, <<>>, ErrNotAbsolutePath, 0)
  ELSE IF stat(f, p).err # NoErr THEN FsResult(f, FALSE, NilSlice, <<>>, stat(f, p).err, 1)
  ELSE IF stat(f, p).info = "none" THEN FsResult(f, FALSE, NilSlice, <<>>, NoErr, 1)
  ELSE FsResult(f, TRUE, NilSlice, <<>>, NoErr, 1)

\* lines 257-272
isRegularFileExists(f, p) ==
  IF ~isAbsolutePath(p) THEN FsResult(f, FALSE, NilSlice, <<>>, ErrNotAbsolutePath, 0)
  ELSE IF stat(f, p).err # NoErr THEN FsResult(f, FALSE, NilSlice, <<>>, stat(f, p).err, 1)
  ELSE IF stat(f, p).info = "none" THEN FsResult(f, FALSE, NilSlice, <<>>, NoErr, 1)
  ELSE IF stat(f, p).info # "file" THEN FsResult(f, FALSE, NilSlice, <<>>, ErrNotRegularFile, 1)
  ELSE FsResult(f, TRUE, NilSlice, <<>>, NoErr, 1)

\* lines 274-289
isDirExists(f, p) ==
  IF ~isAbsolutePath(p) THEN FsResult(f, FALSE, NilSlice, <<>>, ErrNotAbsolutePath, 0)
  ELSE IF stat(f, p).err # NoErr THEN FsResult(f, FALSE, NilSlice, <<>>, stat(f, p).err, 1)
  ELSE IF stat(f, p).info = "none" THEN FsResult(f, FALSE, NilSlice, <<>>, NoErr, 1)
  ELSE IF ~IsDirKind(stat(f, p).info) THEN FsResult(f, FALSE, NilSlice, <<>>, ErrNotDir, 1)
  ELSE FsResult(f, TRUE, NilSlice, <<>>, NoErr, 1)

\* lines 291-297
isFileExists(f, p) ==
  IF ~isAbsolutePath(p) THEN FsResult(f, FALSE, NilSlice, <<>>, ErrNotAbsolutePath, 0)
  ELSE FsResult(f, stat(f, p).info # "none", NilSlice, <<>>, stat(f, p).err, 1)

\* lines 236-248; ok stands for the *os.File returned
open(f, p) ==
  IF ~isAbsolutePath(p) THEN FsResult(f, FALSE, NilSlice, <<>>, ErrNotAbsolutePath, 0)
  ELSE IF isFileExists(f, p).err # NoErr
         THEN FsResult(f, FALSE, NilSlice, <<>>, isFileExists(f, p).err, 1)
  ELSE IF ~isFileExists(f, p).ok
         THEN FsResult(f, FALSE, NilSlice, <<>>, ErrFileDoesNotExist, 1)
  ELSE IF OsOpen(f, p) # "nil"
         THEN FsResult(f, FALSE, NilSlice, <<>>, OsError(OsOpen(f, p)), 2)
  ELSE FsResult(f, TRUE, NilSlice, <<>>, NoErr, 2)

\* the result of an operation that is one call to the system
OfOsCall(r) ==
  FsResult(r.fs, r.err = "nil", NilSlice, <<>>,
           IF r.err = "nil" THEN NoErr ELSE OsError(r.err), 1)

\* lines 250-255; ok stands for the *os.File returned
create(f, p) ==
  IF ~isAbsolutePath(p) THEN FsResult(f, FALSE, NilSlice, <<>>, ErrNotAbsolutePath, 0)
  ELSE OfOsCall(OsCreate(f, p))

\* lines 299-304
mkdir(f, p, perm) ==
  IF ~isAbsolutePath(p) THEN FsResult(f, FALSE, NilSlice, <<>>, ErrNotAbsolutePath, 0)
  ELSE OfOsCall(OsMkdir(f, p, perm))

\* lines 306-311
mkdirAll(f, p, perm) ==
  IF ~isAbsolutePath(p) THEN FsResult(f, FALSE, NilSlice, <<>>, ErrNotAbsolutePath, 0)
  ELSE OfOsCall(OsMkdirAll(f, p, perm))

\* lines 313-318
removeAll(f, p) ==
  IF ~isAbsolutePath(p) THEN FsResult(f, FALSE, NilSlice, <<>>, ErrNotAbsolutePath, 0)
  ELSE OfOsCall(OsRemoveAll(f, p))

\* variant: the new path is not checked
rename_NewUnchecked(f, oldpath, newpath) ==
  IF ~isAbsolutePath(oldpath)
    THEN FsResult(f, FALSE, NilSlice, <<>>, ErrNotAbsolutePath, 0)
  ELSE OfOsCall(OsRename(f, oldpath, newpath))

\* lines 320-328
rename(f, oldpath, newpath) ==
  IF ~isAbsolutePath(oldpath)
    THEN FsResult(f, FALSE, NilSlice, <<>>, ErrNotAbsolutePath, 0)
  ELSE IF ~isAbsolutePath(newpath)
    THEN FsResult(f, FALSE, NilSlice, <<>>, ErrNotAbsolutePath, 0)
  ELSE OfOsCall(OsRename(f, oldpath, newpath))

\* lines 361-363: filepath.Clean has nothing to remove from a path of plain
\* names, filepath.EvalSymlinks looks every component up
cleanPath(f, p) ==
  IF OsStat(f, p).err # "nil" THEN [out |-> <<>>, err |-> OsError(OsStat(f, p).err)]
  ELSE [out |-> p, err |-> NoErr]

\* lines 350-359; uuid is the name uuid.NewUUID() returns
newTempSubDir(f, base, uuid) ==
  IF ~isAbsolutePath(base) THEN FsResult(f, FALSE, NilSlice, <<>>, ErrNotAbsolutePath, 0)
  ELSE LET subDir == base \o <<uuid>>
           m      == OsMkdir(f, subDir, "0755")
       IN  IF m.err # "nil"
             THEN FsResult(f, FALSE, NilSlice, <<>>, OsError(m.err), 1)
           ELSE FsResult(m.fs, cleanPath(m.fs, subDir).err = NoErr, NilSlice,
                         cleanPath(m.fs, subDir).out, cleanPath(m.fs, subDir).err, 2)

\* variant: the callback collects every entry
walkFn_AllEntries(files, path, kind) == Append(files, path)

\* the callback of lines 220-228 on an entry without error
walkFn(files, path, kind) == IF kind = "file" THEN Append(files, path) ELSE files

RECURSIVE WalkTree(_, _, _), WalkNames(_, _, _, _)
\* filepath.Walk below an entry that Lstat found: the callback on the entry,
\* then, for a directory, its names in order; the first error ends the walk
WalkTree(f, p, files) ==
  LET k    == Kind(f, p)
      here == walkFn(files, p, k)
  IN  IF ~IsDirKind(k) THEN [files |-> here, err |-> "nil", calls |-> 0]
      ELSE IF k = "noperm" THEN [files |-> here, err |-> "EACCES", calls |-> 1]
      ELSE LET r == WalkNames(f, p, 1, here)
           IN  [files |-> r.files, err |-> r.err, calls |-> 1 + r.calls]

WalkNames(f, p, i, files) ==
  IF i > Len(NameOrder) THEN [files |-> files, err |-> "nil", calls |-> 0]
  ELSE IF Kind(f, p \o <<NameOrder[i]>>) = "none" THEN WalkNames(f, p, i + 1, files)
  ELSE LET h == WalkTree(f, p \o <<NameOrder[i]>>, files)
       IN  IF h.err # "nil" THEN [files |-> h.files, err |-> h.err, calls |-> 1 + h.calls]
           ELSE LET t == WalkNames(f, p, i + 1, h.files)
                IN  [files |-> t.files, err |-> t.err, calls |-> 1 + h.calls + t.calls]

\* lines 213-234
listRegularFiles(f, p) ==
  IF ~isAbsolutePath(p) THEN FsResult(f, FALSE, NilSlice, <<>>, ErrNotAbsolutePath, 0)
  ELSE IF OsStat(f, p).err # "nil"
         THEN FsResult(f, FALSE, NilSlice, <<>>, OsError(OsStat(f, p).err), 1)
  ELSE LET w == WalkTree(f, p, <<>>)
       IN  IF w.err # "nil"
             THEN FsResult(f, FALSE, NilSlice, <<>>, OsError(w.err), 1 + w.calls)
           ELSE FsResult(f, TRUE, Slice(w.files), <<>>, NoErr, 1 + w.calls)

\* no operation called yet
NoFsOp == [op |-> "none", path |-> Root, path2 |-> Root, ok |-> FALSE,
           list |-> NilSlice, out |-> <<>>, err |-> NoErr, oscalls |-> 0]

\* the record of a call
FsCall(name, p, p2, r) ==
  [op |-> name, path |-> p, path2 |-> p2, ok |-> r.ok, list |-> r.list,
   out |-> r.out, err |-> r.err, oscalls |-> r.oscalls]

\* ------------------------------------------------- launches side by side
Launches == {1, 2}

\* nothing allocated: pipes and processes are numbered as they are made;
\* closedR, closedW and waited keep who closed which end and who waited on
\* which process
EmptyHeap == [pipes |-> 0, procs |-> 0, closedR |-> {}, closedW |-> {}, waited |-> {}]

\* the locals of a call of executePiped on n valid stages, at line 166
NewLaunch(n) ==
  [numCmds |-> n, pc |-> "wire", wi |-> 0, readers |-> <<>>, writers |-> <<>>,
   procs |-> <<>>, err |-> NoErr]

\* variant: the pipe is the one of the slot it is stored in, as if the
\* slices readers and writers were shared by every launch
ioPipe_PerIndex(h, i) == i + 1

\* io.Pipe() (lines 168, 177) returns a pipe that did not exist before; h is
\* the number of pipes made so far, i the slot the pipe is stored in
ioPipe(h, i) == h + 1

\* ---------------------------------------------------------------- Init
Init ==
  /\ call \in {"Execute", "ExecutePiped"}
  /\ cmds \in IF call = "Execute" THEN { Slice(<<c>>) : c \in CmdSpecs }
                                  ELSE PipeCmdLists
  /\ input \in Inputs
  /\ stdin = input
  /\ stdout = <<>>
  /\ pc = Phases[1]
  /\ si = 0
  /\ wi = 0
  /\ launchErr = NoErr
  /\ waitHandle = FALSE
  /\ waitResult = Pending
  /\ waited = <<>>
  /\ execCmds = <<>>
  /\ npipes = 0
  /\ rclosed = <<>>
  /\ wclosed = <<>>
  /\ proc   = [i \in Stages |-> "unstarted"]
  /\ inbuf  = [i \in Stages |-> <<>>]
  /\ inEOF  = [i \in Stages |-> FALSE]
  /\ inCop  = [i \in Stages |-> "none"]
  /\ outbuf = [i \in Stages |-> <<>>]
  /\ fs = EmptyFs
  /\ fsop = NoFsOp
  /\ launches = <<>>
  /\ heap = EmptyHeap
  /\ closeLog = <<>>
  /\ waitCalls = 0

procVars == <<stdin, stdout, proc, inbuf, inEOF, inCop, outbuf>>

\* ------------------------------------------------- launch: the caller
\* execute lines 117-125 / executePiped lines 137-157
ValidateStep ==
  /\ pc = "validate"
  /\ IF Validate # NoErr
       THEN /\ launchErr' = Validate
            /\ pc' = "failed"
       ELSE /\ pc' = PhaseAfter("validate")
            /\ UNCHANGED launchErr
  /\ UNCHANGED <<si, wi, waitHandle, waitResult, waited, execCmds, npipes,
                 rclosed, wclosed>>
  /\ UNCHANGED <<argVars, procVars>>
  /\ UNCHANGED logVars

\* exec.Command(Args[0], ...) indexes Args: a runtime panic on an empty vector
ConstructPanics == \E i \in 1..Len(cmds.elems) : Len(cmds.elems[i].Args.elems) = 0

\* execute line 126 / executePiped lines 158-165
Construct ==
  /\ pc = "construct"
  /\ IF ConstructPanics
       THEN /\ pc' = "panic"
            /\ UNCHANGED execCmds
       ELSE /\ pc' = PhaseAfter("construct")
            /\ execCmds' = [i \in Stages |->
                              IF call = "Execute" THEN execCmd(PipeCmd(i))
                              ELSE execPipeCmd(PipeCmd(i))]
  /\ UNCHANGED <<si, wi, launchErr, waitHandle, waitResult, waited, npipes,
                 rclosed, wclosed>>
  /\ UNCHANGED <<argVars, procVars>>
  /\ UNCHANGED logVars

\* executePiped lines 166-183: one io.Pipe() per boundary, then the attachments
\* (make([]..., numCmds-1) and readers[0] panic when numCmds < 2)
Wire ==
  /\ pc = "wire"
  /\ IF numCmds < 2
       THEN /\ pc' = "panic"
            /\ UNCHANGED <<execCmds, npipes, rclosed, wclosed>>
       ELSE /\ pc' = PhaseAfter("wire")
            /\ npipes' = 1 + Cardinality({ i \in 0 .. numCmds - 2 : i # numCmds - 2 })
            /\ rclosed' = [j \in 0 .. numCmds - 2 |-> FALSE]
            /\ wclosed' = [j \in 0 .. numCmds - 2 |-> FALSE]
            /\ execCmds' = [i \in Stages |->
                 [execCmds[i] EXCEPT !.Stdin  = WireStdin(i, numCmds),
                                     !.Stdout = WireStdout(i, numCmds),
                                     !.Stderr = WireStderr(i, numCmds)]]
  /\ UNCHANGED <<si, wi, launchErr, waitHandle, waitResult, waited>>
  /\ UNCHANGED <<argVars, procVars>>
  /\ UNCHANGED logVars

\* execCmd.Start() succeeds: the process runs; a copier serves a non-nil Stdin
StartOK ==
  /\ pc = "start"
  /\ si < numCmds
  /\ proc'  = [proc  EXCEPT ![si] = "running"]
  /\ inCop' = [inCop EXCEPT ![si] =
                 IF execCmds[si].Stdin = NoStream THEN "done" ELSE "run"]
  /\ inEOF' = [inEOF EXCEPT ![si] = (execCmds[si].Stdin = NoStream)]
  /\ si' = si + 1
  /\ IF si + 1 = numCmds
       THEN /\ pc' = PhaseAfter("start")
            /\ waitHandle' = (PhaseAfter("start") = "launched")
       ELSE UNCHANGED <<pc, waitHandle>>
  /\ UNCHANGED <<wi, launchErr, waitResult, waited, execCmds, npipes,
                 rclosed, wclosed>>
  /\ UNCHANGED <<argVars, stdin, stdout, inbuf, outbuf>>
  /\ UNCHANGED logVars

\* variant: the stages already started are killed
ProcAfterStartFail_KillStarted(p, k) ==
  [i \in DOMAIN p |-> IF i < k /\ p[i] = "running" THEN "killed" ELSE p[i]]

\* what a failed Start of stage k does to the stages: nothing
ProcAfterStartFail(p, k) == p

\* execCmd.Start() fails: execute line 131 / executePiped line 186
StartFail ==
  /\ pc = "start"
  /\ si < numCmds
  /\ launchErr' = StartError(si)
  /\ pc' = "failed"
  /\ proc' = ProcAfterStartFail(proc, si)
  /\ UNCHANGED <<si, wi, waitHandle, waitResult, waited, execCmds, npipes,
                 rclosed, wclosed>>
  /\ UNCHANGED <<argVars, stdin, stdout, inbuf, inEOF, inCop, outbuf>>
  /\ UNCHANGED logVars

\* ------------------------------------------------ the stage processes
Prog(i) == execCmds[i].Path
Exited(i) == proc[i] \in {"exit0", "exit1"}

\* a running stage reads one chunk and writes its image
ProcStep(i) ==
  /\ proc[i] = "running"
  /\ inbuf[i] # <<>>
  /\ execCmds[i].Stdout # NoStream => Len(outbuf[i]) < OSBuf
  /\ outbuf' = IF execCmds[i].Stdout = NoStream THEN outbuf
               ELSE [outbuf EXCEPT ![i] = Append(@, Xform(Prog(i), Head(inbuf[i])))]
  /\ IF StopsAfterFirst(Prog(i))
       THEN /\ proc'  = [proc  EXCEPT ![i] = "exit0"]
            /\ inbuf' = [inbuf EXCEPT ![i] = <<>>]
       ELSE /\ inbuf' = [inbuf EXCEPT ![i] = Tail(@)]
            /\ UNCHANGED proc
  /\ UNCHANGED <<stdin, stdout, inEOF, inCop>>
  /\ UNCHANGED <<argVars, callerVars>>

\* a running stage reaches end of input and exits 0
ProcEOF(i) ==
  /\ proc[i] = "running"
  /\ inbuf[i] = <<>>
  /\ inEOF[i]
  /\ proc' = [proc EXCEPT ![i] = "exit0"]
  /\ UNCHANGED <<stdin, stdout, inbuf, inEOF, inCop, outbuf>>
  /\ UNCHANGED <<argVars, callerVars>>

\* a running stage stops reading and exits with a non-zero status
ProcCrash(i) ==
  /\ proc[i] = "running"
  /\ proc'  = [proc  EXCEPT ![i] = "exit1"]
  /\ inbuf' = [inbuf EXCEPT ![i] = <<>>]
  /\ UNCHANGED <<stdin, stdout, inEOF, inCop, outbuf>>
  /\ UNCHANGED <<argVars, callerVars>>

\* ------------------------------------------------ the os/exec copiers
\* stdin copier of a stage whose Stdin is the external Stdin: one chunk
StdinCopy(i) ==
  /\ inCop[i] = "run"
  /\ execCmds[i].Stdin = ExtStdin
  /\ stdin # <<>>
  /\ proc[i] = "running"
  /\ Len(inbuf[i]) < OSBuf
  /\ inbuf' = [inbuf EXCEPT ![i] = Append(@, Head(stdin))]
  /\ stdin' = Tail(stdin)
  /\ UNCHANGED <<stdout, proc, inEOF, inCop, outbuf>>
  /\ UNCHANGED <<argVars, callerVars>>

\* ... the process has exited: the write gets EPIPE and the copier stops
StdinEPIPE(i) ==
  /\ inCop[i] = "run"
  /\ execCmds[i].Stdin = ExtStdin
  /\ stdin # <<>>
  /\ Exited(i)
  /\ stdin' = Tail(stdin)
  /\ inCop' = [inCop EXCEPT ![i] = "done"]
  /\ UNCHANGED <<stdout, proc, inbuf, inEOF, outbuf>>
  /\ UNCHANGED <<argVars, callerVars>>

\* ... end of the external Stdin: the copier closes the process's stdin
StdinEOF(i) ==
  /\ inCop[i] = "run"
  /\ execCmds[i].Stdin = ExtStdin
  /\ stdin = <<>>
  /\ inEOF' = [inEOF EXCEPT ![i] = TRUE]
  /\ inCop' = [inCop EXCEPT ![i] = "done"]
  /\ UNCHANGED <<stdin, stdout, proc, inbuf, outbuf>>
  /\ UNCHANGED <<argVars, callerVars>>

\* io.Pipe j: the stdout copier of a writer stage hands one chunk to the
\* stdin copier of a reader stage, which writes it to the reader's stdin
PipeCopy(j) ==
  \E iw \in Stages, ir \in Stages :
    /\ execCmds # <<>>
    /\ execCmds[iw].Stdout = WriterOf(j)
    /\ execCmds[ir].Stdin = ReaderOf(j)
    /\ ~rclosed[j] /\ ~wclosed[j]
    /\ outbuf[iw] # <<>>
    /\ inCop[ir] = "run"
    /\ proc[ir] = "running"
    /\ Len(inbuf[ir]) < OSBuf
    /\ inbuf'  = [inbuf  EXCEPT ![ir] = Append(@, Head(outbuf[iw]))]
    /\ outbuf' = [outbuf EXCEPT ![iw] = Tail(@)]
    /\ UNCHANGED <<stdin, stdout, proc, inEOF, inCop>>
    /\ UNCHANGED <<argVars, callerVars>>

\* ... the reader process has exited: its stdin copier takes the chunk, gets
\* EPIPE and stops; it does not close the io.Pipe reader
PipeEPIPE(j) ==
  \E iw \in Stages, ir \in Stages :
    /\ execCmds # <<>>
    /\ execCmds[iw].Stdout = WriterOf(j)
    /\ execCmds[ir].Stdin = ReaderOf(j)
    /\ ~rclosed[j] /\ ~wclosed[j]
    /\ outbuf[iw] # <<>>
    /\ inCop[ir] = "run"
    /\ Exited(ir)
    /\ outbuf' = [outbuf EXCEPT ![iw] = Tail(@)]
    /\ inCop'  = [inCop  EXCEPT ![ir] = "done"]
    /\ UNCHANGED <<stdin, stdout, proc, inbuf, inEOF>>
    /\ UNCHANGED <<argVars, callerVars>>

\* ... the write end is closed: the reader's stdin copier reads EOF and
\* closes the reader's stdin
PipeEOF(j) ==
  \E ir \in Stages :
    /\ execCmds # <<>>
    /\ execCmds[ir].Stdin = ReaderOf(j)
    /\ wclosed[j] /\ ~rclosed[j]
    /\ inCop[ir] = "run"
    /\ inEOF' = [inEOF EXCEPT ![ir] = TRUE]
    /\ inCop' = [inCop EXCEPT ![ir] = "done"]
    /\ UNCHANGED <<stdin, stdout, proc, inbuf, outbuf>>
    /\ UNCHANGED <<argVars, callerVars>>

\* stdout copier of a stage whose Stdout is the external Stdout
StdoutCopy(i) ==
  /\ execCmds # <<>>
  /\ execCmds[i].Stdout = ExtStdout
  /\ outbuf[i] # <<>>
  /\ stdout' = Append(stdout, Head(outbuf[i]))
  /\ outbuf' = [outbuf EXCEPT ![i] = Tail(@)]
  /\ UNCHANGED <<stdin, proc, inbuf, inEOF, inCop>>
  /\ UNCHANGED <<argVars, callerVars>>

\* ------------------------------------------------------ the wait handle
\* exec.Cmd.Wait of stage i can return: the process has exited, its stdin
\* copier has finished and its stdout copier has drained the process's output
WaitCanReturn(i) == Exited(i) /\ inCop[i] = "done" /\ outbuf[i] = <<>>

\* variant: the error of Wait is dropped
WaitOutcome_Dropped(i) == NoErr

\* Wait of stage i has been called before
AlreadyWaited(i) == \E k \in DOMAIN waited : waited[k].stage = i

\* variant: Wait reports the exit of the process every time it is called
WaitOutcome_Repeatable(i) == IF proc[i] = "exit0" THEN NoErr ELSE ExitError(i)

\* the error Wait of stage i returns: exec.Cmd.Wait refuses a second call on
\* the same command, else it reports the exit of the process
WaitOutcome(i) ==
  IF AlreadyWaited(i) THEN ErrWaitAlreadyCalled(i)
  ELSE IF proc[i] = "exit0" THEN NoErr
  ELSE ExitError(i)

\* the caller invokes the handle
InvokeWait ==
  /\ pc = "launched"
  /\ waitHandle
  /\ pc' = "wait"
  /\ wi' = 0
  /\ UNCHANGED <<si, launchErr, waitHandle, waitResult, waited, execCmds,
                 npipes, rclosed, wclosed>>
  /\ UNCHANGED <<argVars, procVars>>
  /\ waitCalls' = waitCalls + 1
  /\ UNCHANGED closeLog

\* variant: the loop goes on after a Wait that returned an error
AfterWait_GoOn(i, err) ==
  IF call = "Execute" THEN "waitdone"
  ELSE IF i = numCmds - 1 THEN "closeR"
  ELSE IF i # 0 THEN "closeR"
  ELSE "closeW"

\* variant: the read end of the previous boundary is not closed in the loop
AfterWait_SkipReaderClose(i, err) ==
  IF err # NoErr THEN "waitdone"
  ELSE IF call = "Execute" THEN "waitdone"
  ELSE IF i = numCmds - 1 THEN "closeR"
  ELSE "closeW"

\* where the handle goes after a Wait of stage i that returned err
AfterWait(i, err) ==
  IF err # NoErr THEN "waitdone"
  ELSE IF call = "Execute" THEN "waitdone"
  ELSE IF i = numCmds - 1 THEN "closeR"
  ELSE IF i # 0 THEN "closeR"
  ELSE "closeW"

\* execCmds[i].Wait(): line 133, line 191, line 203
WaitStage ==
  /\ pc = "wait"
  /\ WaitCanReturn(wi)
  /\ waited' = Append(waited, [stage |-> wi, err |-> WaitOutcome(wi)])
  /\ pc' = AfterWait(wi, WaitOutcome(wi))
  /\ waitResult' = IF AfterWait(wi, WaitOutcome(wi)) = "waitdone"
                     THEN WaitOutcome(wi) ELSE waitResult
  /\ UNCHANGED <<si, wi, launchErr, waitHandle, execCmds, npipes, rclosed, wclosed>>
  /\ UNCHANGED <<argVars, procVars>>
  /\ UNCHANGED logVars

\* variant: the loop closes the read end of the boundary the stage writes to
ReaderToClose_Own(i) == IF i = numCmds - 1 THEN numCmds - 2 ELSE i

\* variant: every close of a read end is of the last boundary's
ReaderToClose_Last(i) == numCmds - 2

\* the read end closed after the Wait of stage i: readers[i-1] in the loop
\* (line 195), readers[numCmds-2] after the last stage (line 206)
ReaderToClose(i) == IF i = numCmds - 1 THEN numCmds - 2 ELSE i - 1

\* readers[i-1].Close() (line 195) and readers[numCmds-2].Close() (line 206)
CloseReader ==
  /\ pc = "closeR"
  /\ rclosed' = [rclosed EXCEPT ![ReaderToClose(wi)] = TRUE]
  /\ IF wi = numCmds - 1
       THEN /\ pc' = "waitdone"
            /\ waitResult' = NoErr
       ELSE /\ pc' = "closeW"
            /\ UNCHANGED waitResult
  /\ UNCHANGED <<si, wi, launchErr, waitHandle, waited, execCmds, npipes, wclosed>>
  /\ UNCHANGED <<argVars, procVars>>
  /\ closeLog' = Append(closeLog, <<"r", ReaderToClose(wi)>>)
  /\ UNCHANGED waitCalls

\* writers[i].Close() (line 199), then the next iteration
CloseWriter ==
  /\ pc = "closeW"
  /\ wclosed' = [wclosed EXCEPT ![wi] = TRUE]
  /\ wi' = wi + 1
  /\ pc' = "wait"
  /\ UNCHANGED <<si, launchErr, waitHandle, waitResult, waited, execCmds,
                 npipes, rclosed>>
  /\ UNCHANGED <<argVars, procVars>>
  /\ closeLog' = Append(closeLog, <<"w", wi>>)
  /\ UNCHANGED waitCalls

\* --------------------------------------------------------------- Next
Next ==
  \/ ValidateStep
  \/ Construct
  \/ Wire
  \/ StartOK
  \/ StartFail
  \/ \E i \in Stages : ProcStep(i)
  \/ \E i \in Stages : ProcEOF(i)
  \/ \E i \in Stages : ProcCrash(i)
  \/ \E i \in Stages : StdinCopy(i)
  \/ \E i \in Stages : StdinEPIPE(i)
  \/ \E i \in Stages : StdinEOF(i)
  \/ \E j \in 0 .. numCmds - 2 : PipeCopy(j)
  \/ \E j \in 0 .. numCmds - 2 : PipeEPIPE(j)
  \/ \E j \in 0 .. numCmds - 2 : PipeEOF(j)
  \/ \E i \in Stages : StdoutCopy(i)
  \/ InvokeWait
  \/ WaitStage
  \/ CloseReader
  \/ CloseWriter

Spec == Init /\ [][Next]_vars

\* the operating system schedules every runnable process and goroutine, and
\* a caller that is not blocked takes its next step
FairSpec == Spec /\ WF_vars(Next)

\* ------------------------------------------- the filesystem operations
\* the state of the one pipeline
pipeVars == <<call, cmds, input, stdin, stdout, pc, si, wi, launchErr,
              waitHandle, waitResult, waited, execCmds, npipes, rclosed,
              wclosed, proc, inbuf, inEOF, inCop, outbuf, logVars>>

\* no pipeline
NoPipeline ==
  /\ call = "Execute"
  /\ cmds = NilSlice
  /\ input = <<>>
  /\ stdin = <<>>
  /\ stdout = <<>>
  /\ pc = "none"
  /\ si = 0
  /\ wi = 0
  /\ launchErr = NoErr
  /\ waitHandle = FALSE
  /\ waitResult = Pending
  /\ waited = <<>>
  /\ execCmds = <<>>
  /\ npipes = 0
  /\ rclosed = <<>>
  /\ wclosed = <<>>
  /\ proc   = <<>>
  /\ inbuf  = <<>>
  /\ inEOF  = <<>>
  /\ inCop  = <<>>
  /\ outbuf = <<>>
  /\ closeLog = <<>>
  /\ waitCalls = 0

\* any tree of files and directories, and no pipeline
FsInit ==
  /\ NoPipeline
  /\ fs \in FsStates
  /\ fsop = NoFsOp
  /\ launches = <<>>
  /\ heap = EmptyHeap

\* a call of an operation: what it does to the filesystem and what it returns
ListRegularFiles(p) ==
  /\ fs' = listRegularFiles(fs, p).fs
  /\ fsop' = FsCall("ListRegularFiles", p, Root, listRegularFiles(fs, p))
  /\ UNCHANGED <<pipeVars, twoVars>>

Open(p) ==
  /\ fs' = open(fs, p).fs
  /\ fsop' = FsCall("Open", p, Root, open(fs, p))
  /\ UNCHANGED <<pipeVars, twoVars>>

Create(p) ==
  /\ fs' = create(fs, p).fs
  /\ fsop' = FsCall("Create", p, Root, create(fs, p))
  /\ UNCHANGED <<pipeVars, twoVars>>

IsRegularFileExists(p) ==
  /\ fs' = isRegularFileExists(fs, p).fs
  /\ fsop' = FsCall("IsRegularFileExists", p, Root, isRegularFileExists(fs, p))
  /\ UNCHANGED <<pipeVars, twoVars>>

IsDirExists(p) ==
  /\ fs' = isDirExists(fs, p).fs
  /\ fsop' = FsCall("IsDirExists", p, Root, isDirExists(fs, p))
  /\ UNCHANGED <<pipeVars, twoVars>>

IsFileExists(p) ==
  /\ fs' = isFileExists(fs, p).fs
  /\ fsop' = FsCall("IsFileExists", p, Root, isFileExists(fs, p))
  /\ UNCHANGED <<pipeVars, twoVars>>

Mkdir(p, perm) ==
  /\ fs' = mkdir(fs, p, perm).fs
  /\ fsop' = FsCall("Mkdir", p, Root, mkdir(fs, p, perm))
  /\ UNCHANGED <<pipeVars, twoVars>>

MkdirAll(p, perm) ==
  /\ fs' = mkdirAll(fs, p, perm).fs
  /\ fsop' = FsCall("MkdirAll", p, Root, mkdirAll(fs, p, perm))
  /\ UNCHANGED <<pipeVars, twoVars>>

RemoveAll(p) ==
  /\ fs' = removeAll(fs, p).fs
  /\ fsop' = FsCall("RemoveAll", p, Root, removeAll(fs, p))
  /\ UNCHANGED <<pipeVars, twoVars>>

\* the tree moved stays within the paths of the model
RenameFits(old, new) ==
  \A x \in FsNodes :
     (IsPrefix(Resolve(old), x) /\ fs[x] # "none") =>
        Len(x) - Len(Resolve(old)) + Len(Resolve(new)) <= 3

Rename(old, new) ==
  /\ RenameFits(old, new)
  /\ fs' = rename(fs, old, new).fs
  /\ fsop' = FsCall("Rename", old, new, rename(fs, old, new))
  /\ UNCHANGED <<pipeVars, twoVars>>

\* the new directory is one of the paths of the model, or is not made
NewTempSubDir(base, uuid) ==
  /\ Resolve(base) \o <<uuid>> \in FsNodes \/ ~IsDirKind(Kind(fs, Resolve(base)))
  /\ fs' = newTempSubDir(fs, base, uuid).fs
  /\ fsop' = FsCall("NewTempSubDir", base, Root, newTempSubDir(fs, base, uuid))
  /\ UNCHANGED <<pipeVars, twoVars>>

FsNext ==
  \/ \E p \in PathArgs : ListRegularFiles(p)
  \/ \E p \in PathArgs : Open(p)
  \/ \E p \in PathArgs : Create(p)
  \/ \E p \in PathArgs : IsRegularFileExists(p)
  \/ \E p \in PathArgs : IsDirExists(p)
  \/ \E p \in PathArgs : IsFileExists(p)
  \/ \E p \in PathArgs, perm \in Perms : Mkdir(p, perm)
  \/ \E p \in PathArgs, perm \in Perms : MkdirAll(p, perm)
  \/ \E p \in PathArgs : RemoveAll(p)
  \/ \E old \in PathArgs, new \in PathArgs : Rename(old, new)
  \/ \E base \in PathArgs, uuid \in Names : NewTempSubDir(base, uuid)

FsSpec == FsInit /\ [][FsNext]_vars

\* ---------------------------------------------- two launches side by side
\* two calls of ExecutePiped on valid stage lists; the steps of the two and
\* of their wait handles interleave freely.  Wait is taken when the process
\* has exited: the exit and its status are part of the step.
TwoInit ==
  /\ NoPipeline
  /\ fs = EmptyFs
  /\ fsop = NoFsOp
  /\ launches \in [Launches -> { NewLaunch(n) : n \in 2 .. MaxStages }]
  /\ heap = EmptyHeap

\* reader, writer := io.Pipe(); readers[i] = reader; writers[i] = writer
\* (lines 168-170 and 177-179); after the last one the loop is over
LaunchPipe(k) ==
  /\ launches[k].pc = "wire"
  /\ launches' =
       [launches EXCEPT
          ![k].readers = Append(@, ioPipe(heap.pipes, Len(launches[k].readers))),
          ![k].writers = Append(@, ioPipe(heap.pipes, Len(launches[k].writers))),
          ![k].pc = IF Len(launches[k].readers) + 1 = launches[k].numCmds - 1
                      THEN "start" ELSE "wire"]
  /\ heap' = [heap EXCEPT !.pipes = @ + 1]
  /\ UNCHANGED <<pipeVars, fsVars>>

\* execCmd.Start() succeeds (line 185): a new process
LaunchStartOK(k) ==
  /\ launches[k].pc = "start"
  /\ launches' =
       [launches EXCEPT
          ![k].procs = Append(@, heap.procs + 1),
          ![k].pc = IF Len(launches[k].procs) + 1 = launches[k].numCmds
                      THEN "launched" ELSE "start"]
  /\ heap' = [heap EXCEPT !.procs = @ + 1]
  /\ UNCHANGED <<pipeVars, fsVars>>

\* execCmd.Start() fails (lines 185-187): return nil, err
LaunchStartFail(k) ==
  /\ launches[k].pc = "start"
  /\ launches' = [launches EXCEPT ![k].pc = "failed",
                                  ![k].err = StartError(Len(launches[k].procs))]
  /\ UNCHANGED heap
  /\ UNCHANGED <<pipeVars, fsVars>>

\* the caller invokes the handle returned at line 189
LaunchInvokeWait(k) ==
  /\ launches[k].pc = "launched"
  /\ launches' = [launches EXCEPT ![k].pc = "wait"]
  /\ UNCHANGED heap
  /\ UNCHANGED <<pipeVars, fsVars>>

\* where the closure goes after execCmds[i].Wait() of launch k
LaunchAfterWait(k, i, err) ==
  IF err # NoErr THEN "waitdone"
  ELSE IF i = launches[k].numCmds - 1 THEN "closeR"
  ELSE IF i # 0 THEN "closeR"
  ELSE "closeW"

\* execCmds[i].Wait() (lines 191, 203) of the closure of launch k: nil, or
\* the error of the exit
LaunchWait(k) ==
  /\ launches[k].pc = "wait"
  /\ \E err \in {NoErr, ExitError(launches[k].wi)} :
       launches' =
         [launches EXCEPT
            ![k].pc = LaunchAfterWait(k, launches[k].wi, err),
            ![k].err = err]
  /\ heap' = [heap EXCEPT
                !.waited = @ \cup {<<launches[k].procs[launches[k].wi + 1], k>>}]
  /\ UNCHANGED <<pipeVars, fsVars>>

\* the slot of the read end closed after the Wait of stage i of launch k
LaunchReaderToClose(k, i) ==
  IF i = launches[k].numCmds - 1 THEN launches[k].numCmds - 2 ELSE i - 1

\* readers[i-1].Close() (line 195), readers[numCmds-2].Close() (line 206)
LaunchCloseReader(k) ==
  /\ launches[k].pc = "closeR"
  /\ launches' =
       [launches EXCEPT
          ![k].pc = IF launches[k].wi = launches[k].numCmds - 1
                      THEN "waitdone" ELSE "closeW"]
  /\ heap' = [heap EXCEPT
                !.closedR = @ \cup
                   {<<launches[k].readers[LaunchReaderToClose(k, launches[k].wi) + 1], k>>}]
  /\ UNCHANGED <<pipeVars, fsVars>>

\* writers[i].Close() (line 199), then the next iteration
LaunchCloseWriter(k) ==
  /\ launches[k].pc = "closeW"
  /\ launches' = [launches EXCEPT ![k].pc = "wait", ![k].wi = @ + 1]
  /\ heap' = [heap EXCEPT
                !.closedW = @ \cup {<<launches[k].writers[launches[k].wi + 1], k>>}]
  /\ UNCHANGED <<pipeVars, fsVars>>

TwoNext ==
  \/ \E k \in Launches : LaunchPipe(k)
  \/ \E k \in Launches : LaunchStartOK(k)
  \/ \E k \in Launches : LaunchStartFail(k)
  \/ \E k \in Launches : LaunchInvokeWait(k)
  \/ \E k \in Launches : LaunchWait(k)
  \/ \E k \in Launches : LaunchCloseReader(k)
  \/ \E k \in Launches : LaunchCloseWriter(k)

TwoSpec == TwoInit /\ [][TwoNext]_vars

\* ------------------------------------------- the wait handle, once more
\* the caller invokes the handle again after it has returned: the closure of
\* line 189 runs from its first line, with its own loop variable
InvokeWaitAgain ==
  /\ pc = "waitdone"
  /\ waitHandle
  /\ waitCalls < MaxWaitCalls
  /\ pc' = "wait"
  /\ wi' = 0
  /\ waitResult' = Pending
  /\ waitCalls' = waitCalls + 1
  /\ UNCHANGED <<si, launchErr, waitHandle, waited, execCmds, npipes, rclosed,
                 wclosed, closeLog>>
  /\ UNCHANGED <<argVars, procVars>>

AgainNext ==
  \/ Next
  \/ InvokeWaitAgain

AgainSpec == Init /\ [][AgainNext]_vars

TypeOK ==
  /\ pc \in {"validate", "construct", "wire", "start", "launched", "failed",
             "wait", "closeR", "closeW", "waitdone", "panic"}
  /\ \A i \in Stages : proc[i] \in {"unstarted", "running", "exit0", "exit1"}
  /\ \A i \in Stages : Len(inbuf[i]) <= OSBuf /\ Len(outbuf[i]) <= OSBuf

\* =================================================================
\* Properties
\* =================================================================
LaunchPhases == {"validate", "construct", "wire", "start"}

\* the call to Execute / ExecutePiped is over
Returned == pc \notin LaunchPhases

NoneStarted == \A i \in Stages : proc[i] = "unstarted"

IsEmptyArgs(c) == ~c.Args.isnil /\ Len(c.Args.elems) = 0
IsRelativeDir(c) == c.AbsoluteDir # PathEmpty /\ c.AbsoluteDir[1] # "/"
\* a stage that passes every check
IsValidStage(c) ==
  /\ ~c.Args.isnil
  /\ Len(c.Args.elems) > 0
  /\ ~IsRelativeDir(c)

\* ---------------------------------------------------------------- C2
\* C2 (as stated): ExecutePiped with 0 stages returns ErrEmpty, with exactly
\* 1 stage returns ErrNotMultipleCommands, and no process is started.
C2_Original ==
  (call = "ExecutePiped" /\ Returned) =>
     /\ numCmds = 0 => (launchErr = ErrEmpty /\ NoneStarted)
     /\ numCmds = 1 => (launchErr = ErrNotMultipleCommands /\ NoneStarted)

\* C2 (amended): ExecutePiped with a non-nil list of 0 stages returns
\* ErrEmpty, with a nil list returns ErrNil, with exactly 1 stage returns
\* ErrNotMultipleCommands; in all three cases no process is started.
C2_StageCount ==
  (call = "ExecutePiped" /\ Returned) =>
     /\ (numCmds = 0 /\ ~cmds.isnil) => (launchErr = ErrEmpty /\ NoneStarted)
     /\ cmds.isnil => (launchErr = ErrNil /\ NoneStarted)
     /\ numCmds = 1 => (launchErr = ErrNotMultipleCommands /\ NoneStarted)

C2_Witness ==
  /\ call = "ExecutePiped"
  /\ pc = "failed"
  /\ ~cmds.isnil
  /\ numCmds = 0
  /\ launchErr = ErrEmpty

\* ---------------------------------------------------------------- C3
HasEmptyArgs == \E i \in Stages : IsEmptyArgs(PipeCmd(i))

\* the empty argument vector is the first thing a check in code order meets
EmptyArgsMetFirst ==
  \/ call = "Execute" /\ IsEmptyArgs(PipeCmd(0))
  \/ /\ call = "ExecutePiped"
     /\ numCmds >= 2
     /\ \E k \in Stages :
          /\ IsEmptyArgs(PipeCmd(k))
          /\ \A j \in 0 .. k - 1 : IsValidStage(PipeCmd(j))

\* C3 (as stated): a launch of a spec that contains an empty argument
\* vector returns ErrEmpty and has started no process.
C3_Original ==
  (Returned /\ HasEmptyArgs) => (launchErr = ErrEmpty /\ NoneStarted)

\* C3 (amended): a launch of a spec that contains an empty (non-nil,
\* zero-length) argument vector returns a validation error and has started
\* no process; the error is ErrEmpty when no earlier check fails, that is
\* for Execute, and for ExecutePiped when the list has at least 2 stages and
\* every stage before the first one with empty Args is valid.
C3_EmptyArgs ==
  (Returned /\ HasEmptyArgs) =>
     /\ launchErr \in ValidationErrors
     /\ NoneStarted
     /\ EmptyArgsMetFirst => launchErr = ErrEmpty

C3_Witness ==
  /\ call = "ExecutePiped"
  /\ pc = "failed"
  /\ numCmds >= 2
  /\ IsValidStage(PipeCmd(0))
  /\ IsEmptyArgs(PipeCmd(1))
  /\ launchErr = ErrEmpty

\* ---------------------------------------------------------------- C4
HasRelativeDir == \E i \in Stages : IsRelativeDir(PipeCmd(i))

\* the relative directory is the first thing a check in code order meets
RelativeDirMetFirst ==
  \/ /\ call = "Execute"
     /\ IsRelativeDir(PipeCmd(0))
     /\ ~PipeCmd(0).Args.isnil
     /\ Len(PipeCmd(0).Args.elems) > 0
  \/ /\ call = "ExecutePiped"
     /\ numCmds >= 2
     /\ \E k \in Stages :
          /\ IsRelativeDir(PipeCmd(k))
          /\ ~PipeCmd(k).Args.isnil
          /\ Len(PipeCmd(k).Args.elems) > 0
          /\ \A j \in 0 .. k - 1 : IsValidStage(PipeCmd(j))

\* C4 (as stated): a launch of a spec with a working directory that is set
\* and not absolute returns ErrNotAbsolutePath.
C4_Original ==
  (Returned /\ HasRelativeDir) => launchErr = ErrNotAbsolutePath

\* C4 (amended): a launch of a spec with a working directory that is set and
\* not absolute returns a validation error; the error is ErrNotAbsolutePath
\* when no earlier check fails, that is when the Args of that spec are
\* non-empty and, for ExecutePiped, the list has at least 2 stages and every
\* earlier stage is valid.
C4_RelativeDir ==
  (Returned /\ HasRelativeDir) =>
     /\ launchErr \in ValidationErrors
     /\ RelativeDirMetFirst => launchErr = ErrNotAbsolutePath

C4_Witness ==
  /\ call = "ExecutePiped"
  /\ pc = "failed"
  /\ numCmds >= 2
  /\ IsValidStage(PipeCmd(0))
  /\ IsRelativeDir(PipeCmd(1))
  /\ launchErr = ErrNotAbsolutePath

\* ---------------------------------------------------------------- C5
\* C5: whenever Execute or ExecutePiped has returned a validation error, no
\* pipe has been allocated, no process descriptor has been built or
\* started, and no wait handle has been returned.
C5_FailFast ==
  (Returned /\ launchErr \in ValidationErrors) =>
     /\ npipes = 0
     /\ execCmds = <<>>
     /\ NoneStarted
     /\ ~waitHandle

C5_Witness ==
  /\ call = "ExecutePiped"
  /\ pc = "failed"
  /\ numCmds >= 2
  /\ IsValidStage(PipeCmd(0))
  /\ launchErr \in ValidationErrors

\* ---------------------------------------------------------------- C1
\* what a stage program writes, in a shell pipeline, for the input s
StageOutput(c, s) ==
  LET prog == c.Args.elems[1]
  IN  IF prog = "head" THEN (IF s = <<>> THEN <<>> ELSE <<s[1]>>)
      ELSE [k \in 1 .. Len(s) |->
              IF prog = "inc" THEN (s[k] + 1) % Modulus
              ELSE IF prog = "dbl" THEN (s[k] * 2) % Modulus
              ELSE s[k]]

RECURSIVE ShellFrom(_, _)
\* stage i | stage i+1 | ... applied to s
ShellFrom(i, s) ==
  IF i > Len(cmds.elems) THEN s
  ELSE ShellFrom(i + 1, StageOutput(cmds.elems[i], s))

ShellPipeline == ShellFrom(1, input)

AllExitedCleanly == \A i \in Stages : proc[i] = "exit0"

\* C1: for a pipeline whose stages all started and all exited cleanly, once
\* the wait handle has returned the bytes delivered to Stdout are the bytes
\* of Stdin transformed by stage 0, then stage 1, ..., as the shell pipeline
\* would: nothing lost, duplicated or reordered on the way.
C1_ShellEquivalent ==
  (call = "ExecutePiped" /\ pc = "waitdone" /\ AllExitedCleanly) =>
     stdout = ShellPipeline

C1_Witness ==
  /\ call = "ExecutePiped"
  /\ pc = "waitdone"
  /\ AllExitedCleanly
  /\ numCmds = 3
  /\ Len(input) = 2
  /\ Len(stdout) = 2
  /\ stdout # input

\* ---------------------------------------------------------------- C6
MiddleStageFailed ==
  /\ call = "ExecutePiped"
  /\ numCmds >= 3
  /\ \E k \in 1 .. numCmds - 2 : proc[k] = "exit1"

\* C6: when a middle stage of a started pipeline of 3 or more stages has
\* exited with a non-zero status, an invoked wait handle eventually returns,
\* and returns a non-nil error.
C6_MiddleFailureReturns ==
  (pc = "wait" /\ MiddleStageFailed) ~> (pc = "waitdone" /\ waitResult # NoErr)

\* ---------------------------------------------------------------- C7
\* C7: an invoked wait handle of a started pipeline eventually returns.
C7_WaitReturns ==
  (call = "ExecutePiped" /\ pc = "wait") ~> (pc = "waitdone")

\* ---------------------------------------------------------------- C8
WaitedStages == { waited[k].stage : k \in DOMAIN waited }

\* C8: the pipeline wait handle returns nil only if all N stages have been
\* waited on and every one of them exited cleanly; if the Wait of any stage
\* reported an error or the stage exited non-zero, it does not return nil.
C8_NilOnlyIfAllClean ==
  (call = "ExecutePiped" /\ pc = "waitdone") =>
     /\ waitResult = NoErr =>
          /\ WaitedStages = Stages
          /\ \A i \in Stages : proc[i] = "exit0"
     /\ (\E k \in DOMAIN waited :
            waited[k].err # NoErr \/ proc[waited[k].stage] # "exit0")
          => waitResult # NoErr

C8_Witness ==
  /\ call = "ExecutePiped"
  /\ pc = "waitdone"
  /\ numCmds = 3
  /\ waitResult = NoErr
  /\ Len(waited) = 3

\* ---------------------------------------------------------------- C9
\* C9: stages are waited on in ascending index order 0, 1, 2, ...; a Wait
\* that reports an error is the last Wait of the call, and the handle has
\* then returned exactly that stage's error.
C9_FirstErrorWins ==
  call = "ExecutePiped" =>
     /\ \A k \in DOMAIN waited : waited[k].stage = k - 1
     /\ \A k \in DOMAIN waited :
          waited[k].err # NoErr =>
             /\ k = Len(waited)
             /\ waited[k].err = ExitError(k - 1)
             /\ pc = "waitdone"
             /\ waitResult = waited[k].err

C9_Witness ==
  /\ call = "ExecutePiped"
  /\ pc = "waitdone"
  /\ numCmds = 3
  /\ Len(waited) = 2
  /\ waitResult = ExitError(1)
  /\ proc[2] = "exit1"

\* ---------------------------------------------------------------- C10
StartFailed == launchErr.e = "StartError"

\* C10: if the process of stage k fails to start, ExecutePiped returns that
\* start error and no wait handle, no stage from k on is ever started, and
\* the stages 0..k-1 keep the state their own execution gives them: they
\* are neither waited on nor terminated.
C10_StartFailure ==
  (call = "ExecutePiped" /\ StartFailed) =>
     /\ pc = "failed"
     /\ launchErr = StartError(si)
     /\ ~waitHandle
     /\ waitResult = Pending
     /\ waited = <<>>
     /\ \A j \in Stages : j >= si => proc[j] = "unstarted"
     /\ \A j \in Stages : j < si => proc[j] \in {"running", "exit0", "exit1"}

C10_Witness ==
  /\ call = "ExecutePiped"
  /\ pc = "failed"
  /\ launchErr = StartError(2)
  /\ proc[0] = "running"
  /\ proc[1] = "running"

\* ---------------------------------------------------------------- C11
Boundaries == 0 .. numCmds - 2

\* C11: whenever the pipeline wait handle has returned, with or without an
\* error, the read end and the write end of every boundary are closed.
C11_AllClosedOnReturn ==
  (call = "ExecutePiped" /\ pc = "waitdone") =>
     \A j \in Boundaries : rclosed[j] /\ wclosed[j]

\* ---------------------------------------------------------------- C12
\* the launch of Execute has returned a wait handle
ExecuteLaunched == call = "Execute" /\ pc \in {"launched", "wait", "waitdone"}

\* C12: Execute on a valid spec starts exactly one process, with the
\* argument vector, working directory, environment and streams of the spec
\* and no pipe, and returns a wait handle; the handle returns only after the
\* process has exited, with an error exactly when it exited non-zero; a
\* failed start returns the start error and no wait handle.
C12_ExecuteSingle ==
  call = "Execute" =>
     /\ ExecuteLaunched =>
          /\ ValidateCmd(PipeCmd(0)) = NoErr
          /\ launchErr = NoErr
          /\ waitHandle
          /\ DOMAIN execCmds = {0}
          /\ proc[0] # "unstarted"
          /\ execCmds[0].Path = PipeCmd(0).Args.elems[1]
          /\ execCmds[0].Args = PipeCmd(0).Args.elems
          /\ execCmds[0].Dir = PipeCmd(0).AbsoluteDir
          /\ execCmds[0].Env = PipeCmd(0).Env
          /\ execCmds[0].Stdin = ExtStdin
          /\ execCmds[0].Stdout = ExtStdout
          /\ execCmds[0].Stderr = ExtStderr
          /\ npipes = 0
     /\ pc = "waitdone" =>
          /\ Exited(0)
          /\ waited = <<[stage |-> 0, err |-> waitResult]>>
          /\ waitResult # NoErr <=> proc[0] = "exit1"
     /\ StartFailed =>
          /\ launchErr = StartError(0)
          /\ pc = "failed"
          /\ ~waitHandle
          /\ proc[0] = "unstarted"

C12_Witness ==
  /\ call = "Execute"
  /\ pc = "waitdone"
  /\ waitResult = NoErr
  /\ execCmds[0].Env = Slice(<<"FOO=foo">>)
  /\ execCmds[0].Dir = PathAbs
  /\ Len(stdout) = 2

\* ---------------------------------------------------------------- C16
\* the wiring phase of ExecutePiped is over
AfterWiring ==
  /\ call = "ExecutePiped"
  /\ pc \in {"start", "launched", "wait", "closeR", "closeW", "waitdone"}
       \/ StartFailed

\* C16: after the wiring phase exactly N-1 pipe pairs are allocated, stage
\* i writes to the write end of pair i and stage i+1 reads from the read end
\* of the same pair, stage 0 reads the external Stdin, stage N-1 writes the
\* external Stdout, and every stage's Stderr is the external Stderr.
C16_Wiring ==
  AfterWiring =>
     /\ npipes = numCmds - 1
     /\ DOMAIN rclosed = Boundaries
     /\ DOMAIN wclosed = Boundaries
     /\ \A i \in Boundaries :
          /\ execCmds[i].Stdout = WriterOf(i)
          /\ execCmds[i + 1].Stdin = ReaderOf(i)
     /\ execCmds[0].Stdin = ExtStdin
     /\ execCmds[numCmds - 1].Stdout = ExtStdout
     /\ \A i \in Stages : execCmds[i].Stderr = ExtStderr

C16_Witness ==
  /\ call = "ExecutePiped"
  /\ pc = "start"
  /\ si = 0
  /\ numCmds = 3
  /\ npipes = 2
  /\ execCmds[1].Stdin = ReaderOf(0)
  /\ execCmds[1].Stdout = WriterOf(1)

\* ---------------------------------------------------------------- C17
Started(i) == proc[i] # "unstarted"

FullyWired ==
  /\ npipes = numCmds - 1
  /\ DOMAIN execCmds = Stages
  /\ \A i \in Stages :
       /\ execCmds[i].Stdin # NoStream
       /\ execCmds[i].Stdout # NoStream
       /\ execCmds[i].Stderr # NoStream

\* C17: in ExecutePiped a stage is started only when all N-1 pipes are
\* allocated and the three streams of every stage are attached; the stages
\* are started in ascending order, stage i+1 only after stage i has started.
C17_StartAfterWiring ==
  call = "ExecutePiped" =>
     /\ (\E i \in Stages : Started(i)) => FullyWired
     /\ \A i \in Stages : Started(i) <=> i < si
     /\ \A i \in Stages : (i > 0 /\ Started(i)) => Started(i - 1)

C17_Witness ==
  /\ call = "ExecutePiped"
  /\ pc = "start"
  /\ numCmds = 3
  /\ si = 2
  /\ Started(1)
  /\ ~Started(2)

\* ---------------------------------------------------------------- C18
WaitedCleanly(i) ==
  /\ \E k \in DOMAIN waited : waited[k].stage = i /\ waited[k].err = NoErr
  /\ Exited(i)

\* C18: in every reachable state, a closed write end of boundary j means
\* that stage j, its writer, has been waited on and has exited, and a closed
\* read end of boundary j means that stage j+1, its reader, has been waited
\* on and has exited.
C18_CloseAfterExit ==
  call = "ExecutePiped" =>
     \A j \in DOMAIN rclosed :
        /\ wclosed[j] => WaitedCleanly(j)
        /\ rclosed[j] => WaitedCleanly(j + 1)

C18_Witness ==
  /\ call = "ExecutePiped"
  /\ numCmds = 3
  /\ pc = "closeW"
  /\ wi = 1
  /\ rclosed[0]
  /\ wclosed[0]
  /\ proc[2] = "running"

\* ---------------------------------------------------------------- C19
\* C19: while the handle runs, the write ends closed are exactly those of
\* the boundaries below the stage being waited on, so writers[i] is closed
\* before the Wait of stage i+1 begins; the read end of boundary i-1 is
\* closed right before the write end of boundary i (i >= 1), and between the
\* Wait of stage 0 and the closing of writers[0] no read end is closed.
C19_CloseOrder ==
  (call = "ExecutePiped" /\ pc \in {"wait", "closeR", "closeW"}) =>
     /\ \A j \in Boundaries : wclosed[j] <=> j < wi
     /\ \A j \in Boundaries :
          rclosed[j] <=> (j < wi - 1 \/ (pc = "closeW" /\ j = wi - 1))
     /\ (pc = "closeW" /\ wi >= 1) => (rclosed[wi - 1] /\ ~wclosed[wi])
     /\ (pc = "closeW" /\ wi = 0) => \A j \in Boundaries : ~rclosed[j]
     /\ (pc = "closeR" /\ wi < numCmds - 1) => wi >= 1

C19_Witness ==
  /\ call = "ExecutePiped"
  /\ numCmds = 3
  /\ pc = "wait"
  /\ wi = 2
  /\ wclosed[1]
  /\ rclosed[0]
  /\ ~rclosed[1]

\* ---------------------------------------------------------------- C13
\* the last call was given a path that is not absolute
LastPathNotAbsolute(op) ==
  /\ op.op # "none"
  /\ ~isAbsolutePath(op.path) \/ ~isAbsolutePath(op.path2)

\* C13: a filesystem operation given a path that is not absolute (Rename: in
\* either argument) returns ErrNotAbsolutePath, has made no call to the
\* system, and leaves the filesystem as it was.
C13_NonAbsoluteRejected ==
  [][ LastPathNotAbsolute(fsop') =>
        /\ fs' = fs
        /\ fsop'.err = ErrNotAbsolutePath
        /\ fsop'.oscalls = 0 ]_vars

\* Rename of an existing file to a relative name that is free was refused
C13_Witness ==
  /\ fsop.op = "Rename"
  /\ isAbsolutePath(fsop.path)
  /\ ~isAbsolutePath(fsop.path2)
  /\ Kind(fs, fsop.path) = "file"
  /\ Kind(fs, Resolve(fsop.path2)) = "none"
  /\ AncestorErr(fs, Resolve(fsop.path2)) = "nil"
  /\ fsop.err = ErrNotAbsolutePath

Blocked(f, p) ==
  \E k \in 1 .. Len(p) - 1 : Kind(f, SubSeq(p, 1, k)) \in {"file", "noperm"}

\* the errors of a lookup that are not "does not exist"
LookupErrors == {OsError("ENOTDIR"), OsError("EACCES")}

Subtree(p) == { x \in AbsArgs : IsPrefix(p, x) }

\* the root exists and every directory of its tree can be read
TreeReadable(f, p) ==
  /\ Kind(f, p) # "none"
  /\ ~Blocked(f, p)
  /\ \A x \in Subtree(p) : Kind(f, x) # "noperm"

NameRank(n) == CHOOSE i \in 1 .. Len(NameOrder) : NameOrder[i] = n

\* p is met before q by a walk that lists names in order
PathBefore(p, q) ==
  \E k \in 2 .. Len(p) + 1 :
     /\ k <= Len(q)
     /\ SubSeq(p, 1, k - 1) = SubSeq(q, 1, k - 1)
     /\ k = Len(p) + 1 \/ NameRank(p[k]) < NameRank(q[k])

\* C15: ListRegularFiles on an absolute root whose tree can be read returns
\* the regular files of the tree, each once, no directory, in the order of
\* the walk; when an entry of the walk reports an error it returns that
\* error and a nil list.
C15_ListRegularFiles ==
  (fsop.op = "ListRegularFiles" /\ isAbsolutePath(fsop.path)) =>
     IF TreeReadable(fs, fsop.path)
       THEN /\ fsop.err = NoErr
            /\ ~fsop.list.isnil
            /\ { fsop.list.elems[i] : i \in 1 .. Len(fsop.list.elems) }
                 = { x \in Subtree(fsop.path) : Kind(fs, x) = "file" }
            /\ \A i, j \in 1 .. Len(fsop.list.elems) :
                 i < j => PathBefore(fsop.list.elems[i], fsop.list.elems[j])
       ELSE /\ fsop.err # NoErr
            /\ fsop.list = NilSlice

\* a walk from the root over a directory with two files in it and a file
\* beside it
C15_Witness ==
  /\ fsop.op = "ListRegularFiles"
  /\ fsop.path = Root
  /\ fsop.err = NoErr
  /\ Kind(fs, <<"/", "a">>) = "dir"
  /\ Len(fsop.list.elems) = 3

\* ---------------------------------------------------------------- C20
PipesOf(k) == { launches[k].readers[i] : i \in 1 .. Len(launches[k].readers) }
ProcsOf(k) == { launches[k].procs[i] : i \in 1 .. Len(launches[k].procs) }

\* C20: two launches whose steps interleave have no pipe endpoint in common,
\* and the wait handle of one waits only on its own processes and closes
\* only its own endpoints, never one of the other launch.
C20_Independent ==
  \A k \in Launches : \A o \in Launches \ {k} :
     /\ PipesOf(k) \cap PipesOf(o) = {}
     /\ \A c \in heap.closedR \cup heap.closedW :
          c[2] = k => (c[1] \in PipesOf(k) /\ c[1] \notin PipesOf(o))
     /\ \A w \in heap.waited :
          w[2] = k => (w[1] \in ProcsOf(k) /\ w[1] \notin ProcsOf(o))

\* both wait handles have returned nil, and the pipes of the two launches
\* were made in turns
C20_Witness ==
  /\ \A k \in Launches : launches[k].pc = "waitdone" /\ launches[k].err = NoErr
  /\ \E k \in Launches : \E o \in Launches \ {k} :
       /\ Len(launches[k].readers) = 2
       /\ launches[k].readers[1] < launches[o].readers[1]
       /\ launches[o].readers[1] < launches[k].readers[2]
  /\ \A k \in Launches :
       \A p \in PipesOf(k) : <<p, k>> \in heap.closedR /\ <<p, k>> \in heap.closedW

\* ---------------------------------------------------------------- C21
\* the 2*(N-1) endpoints: the read end and the write end of every boundary
Endpoints == { <<"r", j>> : j \in Boundaries } \cup { <<"w", j>> : j \in Boundaries }

\* the number of Close calls made on endpoint e
CloseCount(e) == Cardinality({ k \in 1 .. Len(closeLog) : closeLog[k] = e })

\* C21: a launch followed by one invocation of wait closes no pipe endpoint
\* more than once, and when that wait returns nil every one of the 2*(N-1)
\* endpoints has been closed exactly once.
C21_ClosedOnce ==
  (call = "ExecutePiped" /\ waitCalls <= 1) =>
     /\ \A k \in 1 .. Len(closeLog) : closeLog[k] \in Endpoints
     /\ \A e \in Endpoints : CloseCount(e) <= 1
     /\ (pc = "waitdone" /\ waitResult = NoErr) =>
          /\ \A e \in Endpoints : CloseCount(e) = 1
          /\ Len(closeLog) = 2 * (numCmds - 1)

\* the wait of a pipeline of three stages has returned nil
C21_Witness ==
  /\ call = "ExecutePiped"
  /\ numCmds = 3
  /\ waitCalls = 1
  /\ pc = "waitdone"
  /\ waitResult = NoErr
  /\ Len(closeLog) = 4

\* ---------------------------------------------------------------- C22
\* C22: an invocation of the wait handle after one that has returned ends at
\* the Wait of stage 0 with a non-nil error; it closes no pipe endpoint (the
\* closed endpoints stay what they were) and waits on no other stage.
C22_SecondWait ==
  [][ waitCalls' >= 2 =>
        /\ closeLog' = closeLog
        /\ rclosed' = rclosed
        /\ wclosed' = wclosed
        /\ (waitCalls >= 2 /\ pc = "wait" /\ pc' # "wait") =>
             /\ wi = 0
             /\ pc' = "waitdone"
             /\ waitResult' # NoErr
             /\ waitResult' = ErrWaitAlreadyCalled(0)
             /\ waited' = Append(waited, [stage |-> 0, err |-> waitResult']) ]_vars

\* the handle of a pipeline of three stages returned nil, was invoked again
\* and has returned
C22_Witness ==
  /\ call = "ExecutePiped"
  /\ numCmds = 3
  /\ waitCalls = 2
  /\ pc = "waitdone"
  /\ waitResult = ErrWaitAlreadyCalled(0)
  /\ Len(closeLog) = 4
  /\ Len(waited) = 4

====
